---- MODULE Spec2Model ----
(***************************************************************************)
(* The reconciliation engine of irpf-report: the per-asset accumulator     *)
(* (investments.py, class Investment) and the registry that feeds it       *)
(* (inventory.py, class Inventory), driven the way cli.py drives them.     *)
(*                                                                         *)
(* Decimal quantities and amounts are exact, so they are modelled as       *)
(* integers (one unit = one cent / one share).  A date is the number of    *)
(* days since 1970-01-01.  Transaction.broker and Transaction.price are    *)
(* never read by the engine and are left out of the record.                *)
(***************************************************************************)
EXTENDS Integers, Sequences, FiniteSets, TLC

\* Bounds of the model: items fed to the registry in one run, and the
\* length of the list one Inventory call receives.
MaxItems == 3
MaxLen == 2

\* date(year=1970, month=1, day=1), the default latest_sell_date.
Epoch == 0

None == "None"

(***************************************************************************)
(* Assets (assets.py).  An asset is described by its class, the value of   *)
(* its `key` property (the ticker of a StockExchangeListed, "name -        *)
(* broker" of a FixedIncome) and its cnpj field.                           *)
(***************************************************************************)
RawCnpj == "11222333000181"
FormattedCnpj == "11.222.333/0001-81"
UnknownCnpj == "Desconhecido"
NotApplicableCnpj == "N/A"

ListedA == [class |-> "StockExchangeListed", key |-> "KEYA", cnpj |-> None]
ListedACnpj == [class |-> "StockExchangeListed", key |-> "KEYA", cnpj |-> RawCnpj]
FixedB == [class |-> "FixedIncome", key |-> "KEYB", cnpj |-> None]
\* A fixed-income asset whose "name - broker" equals the ticker of ListedA.
FixedA == [class |-> "FixedIncome", key |-> "KEYA", cnpj |-> None]

\* Asset.is_listed(): not defined in assets.py; a listed asset is an
\* exchange-traded instrument, a fixed-income asset is not.
is_listed(asset) == asset.class = "StockExchangeListed"

\* Asset.get_cnpj / StockExchangeListed.get_cnpj
get_cnpj(asset) ==
    IF asset.class # "StockExchangeListed" THEN NotApplicableCnpj
    ELSE IF asset.cnpj = None THEN UnknownCnpj
    ELSE IF asset.cnpj # RawCnpj THEN asset.cnpj   \* len(cnpj) != 14
    ELSE FormattedCnpj

\* Asset.update_cnpj(cnpj): not defined in assets.py; the stored field is
\* backfilled when it is unknown and the incoming value is a known one.
update_cnpj(asset, cnpj) ==
    IF /\ asset.class = "StockExchangeListed"
       /\ asset.cnpj = None
       /\ cnpj \notin {UnknownCnpj, NotApplicableCnpj}
    THEN [asset EXCEPT !.cnpj = cnpj]
    ELSE asset

(***************************************************************************)
(* Position and Transaction (investments.py).                              *)
(***************************************************************************)
Position(asset, quantity, invested_amount) ==
    [asset |-> asset, quantity |-> quantity, invested_amount |-> invested_amount]

Transaction(date, operation, ticker, quantity, total_amount) ==
    [date |-> date, operation |-> operation, ticker |-> ticker,
     quantity |-> quantity, total_amount |-> total_amount]

\* The positions a parser may hand over.  invested_amount defaults to 0.
Positions ==
    { Position(ListedA, 100, 0), Position(ListedA, 100, 1000),
      Position(ListedA, 10, 100), Position(ListedA, 100, 500),
      Position(ListedA, -100, 0), Position(ListedACnpj, 100, 0),
      Position(FixedB, 100, 1000), Position(FixedB, 10, 100),
      Position(FixedA, 100, 1000) }

\* The transactions a parser may hand over; "OTHER" is an operation that is
\* neither Operation.BUY nor Operation.SELL, "KEYC" a ticker no position has.
Transactions ==
    { Transaction(1, "BUY", "KEYA", 10, 100),
      Transaction(2, "SELL", "KEYA", 100, 800),
      Transaction(1, "SELL", "KEYA", 100, 800),
      Transaction(-1, "SELL", "KEYA", 10, 100),
      Transaction(1, "OTHER", "KEYA", 10, 100),
      Transaction(1, "BUY", "KEYC", 10, 100) }

(***************************************************************************)
(* Investment (investments.py).                                            *)
(***************************************************************************)
Investment(asset) ==
    [asset |-> asset,
     current_invested_amount |-> 0,
     current_quantity |-> 0,
     previous_invested_amount |-> 0,
     previous_quantity |-> 0,
     transactions_balance_quantity |-> 0,
     transactions_balance_amount |-> 0,
     transactions |-> << >>,
     latest_sell_date |-> Epoch]

\* Faulty variant: assigns the position instead of accumulating it.
add_current_position_overwrites(self, position) ==
    [self EXCEPT !.current_quantity = position.quantity,
                 !.current_invested_amount = position.invested_amount]

add_current_position(self, position) ==
    [self EXCEPT !.current_quantity = @ + position.quantity,
                 !.current_invested_amount = @ + position.invested_amount]

\* Faulty variant: carries the previous amount forward for every asset.
add_previous_position_unconditional(self, position) ==
    [self EXCEPT !.previous_quantity = @ + position.quantity,
                 !.previous_invested_amount = @ + position.invested_amount,
                 !.current_invested_amount = @ + position.invested_amount]

\* Faulty variant: never carries the previous amount forward.
add_previous_position_no_carry(self, position) ==
    [self EXCEPT !.previous_quantity = @ + position.quantity,
                 !.previous_invested_amount = @ + position.invested_amount]

\* Faulty variant: the previous quantity is counted as held too.
add_previous_position_moves_current(self, position) ==
    [self EXCEPT !.previous_quantity = @ + position.quantity,
                 !.previous_invested_amount = @ + position.invested_amount,
                 !.current_quantity = @ + position.quantity,
                 !.current_invested_amount =
                     IF self.asset.class = "StockExchangeListed"
                     THEN @ + position.invested_amount ELSE @]

add_previous_position(self, position) ==
    [self EXCEPT !.previous_quantity = @ + position.quantity,
                 !.previous_invested_amount = @ + position.invested_amount,
                 !.current_invested_amount =
                     IF is_listed(self.asset) THEN @ + position.invested_amount ELSE @]

\* The accounting of a BUY or SELL with the signs and the quantity effect
\* given: `sell` is the sign a SELL applies to the amount balance, `held`
\* whether a trade also moves current_quantity.
Trade(self, transaction, sell, held) ==
    LET s == IF transaction.operation = "BUY" THEN 1 ELSE sell
        q == IF transaction.operation = "BUY" THEN 1 ELSE -1
    IN [inv |-> [self EXCEPT
                   !.transactions_balance_quantity = @ + q * transaction.quantity,
                   !.transactions_balance_amount = @ + s * transaction.total_amount,
                   !.current_invested_amount = @ + q * transaction.total_amount,
                   !.current_quantity =
                       IF held THEN @ + q * transaction.quantity ELSE @,
                   !.latest_sell_date =
                       IF transaction.operation = "SELL" /\ transaction.date > @
                       THEN transaction.date ELSE @,
                   !.transactions = Append(@, transaction)],
        raised |-> None]

\* Faulty variant: a SELL is added to transactions_balance_amount.
add_transaction_sell_adds(self, transaction) ==
    IF transaction.operation \in {"BUY", "SELL"}
    THEN Trade(self, transaction, 1, FALSE)
    ELSE [inv |-> self, raised |-> self.asset.key]

\* Faulty variant: a trade also moves current_quantity.
add_transaction_moves_quantity(self, transaction) ==
    IF transaction.operation \in {"BUY", "SELL"}
    THEN Trade(self, transaction, -1, TRUE)
    ELSE [inv |-> self, raised |-> self.asset.key]

\* Faulty variant: no check of the operation, whatever is not a BUY is
\* accounted as a SELL.
add_transaction_unchecked(self, transaction) == Trade(self, transaction, -1, FALSE)

\* Faulty variant: the transaction is put at the head of the retained list.
add_transaction_prepends(self, transaction) ==
    IF transaction.operation \in {"BUY", "SELL"}
    THEN LET done == Trade(self, transaction, -1, FALSE)
         IN [done EXCEPT !.inv.transactions = <<transaction>> \o self.transactions]
    ELSE [inv |-> self, raised |-> self.asset.key]

\* Faulty variant: a SELL stores its date whatever the date stored.
add_transaction_last_sell_date(self, transaction) ==
    IF transaction.operation \in {"BUY", "SELL"}
    THEN LET done == Trade(self, transaction, -1, FALSE)
         IN [done EXCEPT !.inv.latest_sell_date =
                 IF transaction.operation = "SELL" THEN transaction.date ELSE @]
    ELSE [inv |-> self, raised |-> self.asset.key]

\* The Investment after the call, and the ValueError it raised (None: it
\* returned).  The raise happens before the append.
add_transaction(self, transaction) ==
    IF transaction.operation = "BUY" THEN
        [inv |-> [self EXCEPT
                    !.transactions_balance_quantity = @ + transaction.quantity,
                    !.transactions_balance_amount = @ + transaction.total_amount,
                    !.current_invested_amount = @ + transaction.total_amount,
                    !.transactions = Append(@, transaction)],
         raised |-> None]
    ELSE IF transaction.operation = "SELL" THEN
        [inv |-> [self EXCEPT
                    !.transactions_balance_quantity = @ - transaction.quantity,
                    !.transactions_balance_amount = @ - transaction.total_amount,
                    !.current_invested_amount = @ - transaction.total_amount,
                    !.latest_sell_date =
                        IF transaction.date > @ THEN transaction.date ELSE @,
                    !.transactions = Append(@, transaction)],
         raised |-> None]
    ELSE
        [inv |-> self, raised |-> self.asset.key]

\* Faulty variant: looks at the amount instead of the quantity.
is_closed_by_amount(self) == self.current_invested_amount = 0

is_closed(self) == self.current_quantity = 0

\* Faulty variant: the sum without the negation.
result_not_negated(self) ==
    self.previous_invested_amount + self.transactions_balance_amount

result(self) == -(self.previous_invested_amount + self.transactions_balance_amount)

\* AssetsSheetWriter._format_investment_description (reports.py): the word
\* chosen for the result of a closed position ("prejuizo" is "prejuízo").
loss_or_profit(self) == IF result(self) >= 0 THEN "lucro" ELSE "prejuizo"

\* Faulty variant: without the early return for non-listed assets.
has_missing_transactions_any_asset(self) ==
    self.previous_quantity + self.transactions_balance_quantity # self.current_quantity

has_missing_transactions(self) ==
    IF ~is_listed(self.asset) THEN FALSE
    ELSE self.previous_quantity + self.transactions_balance_quantity # self.current_quantity

\* Faulty variant: compares the amounts only.
repeat_amount_amounts_only(self) ==
    self.previous_invested_amount = self.current_invested_amount

repeat_amount(self) ==
    /\ self.previous_invested_amount = self.current_invested_amount
    /\ self.previous_quantity = self.current_quantity

(***************************************************************************)
(* Inventory (inventory.py).  The dict `investments` is a function on the  *)
(* keys it holds together with their insertion order.                      *)
(***************************************************************************)
VARIABLES
    investments,   \* Inventory.investments: key -> Investment
    order,         \* the insertion order of the dict's keys
    warnings,      \* the tickers logging.warning was called for, in order
    raised,        \* the ValueError that ended the run (None: none)
    calls,         \* history: the Inventory methods called, in order
    curSeen,       \* history: the positions given to add_current_positions
    prevSeen,      \* history: the positions given to add_previous_positions
    txSeen,        \* history: the transactions given to add_transactions
    main           \* cli.py main: its place and its options (None: the
                   \* Inventory is driven by its methods, in any order)

vars == <<investments, order, warnings, raised, calls, curSeen, prevSeen, txSeen, main>>

EmptyDict == [k \in {} |-> None]

Put(dict, key, value) ==
    [k \in DOMAIN dict \cup {key} |-> IF k = key THEN value ELSE dict[k]]

\* The registry as one value, for the loops below.
Registry(inv, ord, warn, err) ==
    [investments |-> inv, order |-> ord, warnings |-> warn, raised |-> err]

\* Faulty variant: stores a new Investment even for a key already held.
GetOrCreate_always_creates(reg, position) ==
    [reg EXCEPT !.investments = Put(@, position.asset.key, Investment(position.asset)),
                !.order = IF position.asset.key \in DOMAIN reg.investments
                          THEN @ ELSE Append(@, position.asset.key)]

\* Faulty variant: the new Investment starts from the position's quantity.
GetOrCreate_prefilled(reg, position) ==
    LET key == position.asset.key IN
    IF key \notin DOMAIN reg.investments
    THEN [reg EXCEPT !.investments =
                         Put(@, key, [Investment(position.asset) EXCEPT
                                         !.current_quantity = position.quantity]),
                     !.order = Append(@, key)]
    ELSE [reg EXCEPT !.investments[key].asset =
                         update_cnpj(@, get_cnpj(position.asset))]

\* Faulty variant: a position for a key already held leaves the asset alone.
GetOrCreate_no_update(reg, position) ==
    LET key == position.asset.key IN
    IF key \notin DOMAIN reg.investments
    THEN [reg EXCEPT !.investments = Put(@, key, Investment(position.asset)),
                     !.order = Append(@, key)]
    ELSE reg

\* Faulty variant: a position for a key already held replaces the asset.
GetOrCreate_latest_asset(reg, position) ==
    LET key == position.asset.key IN
    IF key \notin DOMAIN reg.investments
    THEN [reg EXCEPT !.investments = Put(@, key, Investment(position.asset)),
                     !.order = Append(@, key)]
    ELSE [reg EXCEPT !.investments[key].asset = position.asset]

\* The get-or-create of add_current_positions / add_previous_positions:
\* a new Investment for an absent key, update_cnpj for a present one.
GetOrCreate(reg, position) ==
    LET key == position.asset.key IN
    IF key \notin DOMAIN reg.investments
    THEN [reg EXCEPT !.investments = Put(@, key, Investment(position.asset)),
                     !.order = Append(@, key)]
    ELSE [reg EXCEPT !.investments[key].asset =
                         update_cnpj(@, get_cnpj(position.asset))]

\* Faulty variant: an Investment whose current_quantity reaches 0 is deleted.
RECURSIVE add_current_positions_drops_closed(_, _)
add_current_positions_drops_closed(reg, current) ==
    IF current = << >> THEN reg
    ELSE LET position == Head(current)
             got == GetOrCreate(reg, position)
             key == position.asset.key
             added == add_current_position(got.investments[key], position)
             kept == DOMAIN got.investments \ {key}
         IN add_current_positions_drops_closed(
                IF is_closed(added)
                THEN [got EXCEPT
                        !.investments = [k \in kept |-> got.investments[k]],
                        !.order = SelectSeq(@, LAMBDA k : k # key)]
                ELSE [got EXCEPT !.investments[key] = added],
                Tail(current))

RECURSIVE add_current_positions(_, _)
add_current_positions(reg, current) ==
    IF current = << >> THEN reg
    ELSE LET position == Head(current)
             got == GetOrCreate(reg, position)
             key == position.asset.key
         IN add_current_positions(
                [got EXCEPT !.investments[key] = add_current_position(@, position)],
                Tail(current))

RECURSIVE add_previous_positions(_, _)
add_previous_positions(reg, previous) ==
    IF previous = << >> THEN reg
    ELSE LET position == Head(previous)
             got == GetOrCreate(reg, position)
             key == position.asset.key
         IN add_previous_positions(
                [got EXCEPT !.investments[key] = add_previous_position(@, position)],
                Tail(previous))

\* Faulty variant: a new Investment for a ticker the registry does not hold.
RECURSIVE add_transactions_get_or_create(_, _)
add_transactions_get_or_create(reg, transactions) ==
    IF transactions = << >> THEN reg
    ELSE LET transaction == Head(transactions)
             key == transaction.ticker
             got == IF key \in DOMAIN reg.investments THEN reg
                    ELSE [reg EXCEPT
                            !.investments = Put(@, key, Investment(
                                [class |-> "StockExchangeListed", key |-> key,
                                 cnpj |-> None])),
                            !.order = Append(@, key)]
             done == add_transaction(got.investments[key], transaction)
         IN IF done.raised # None
            THEN [got EXCEPT !.raised = done.raised]
            ELSE add_transactions_get_or_create(
                     [got EXCEPT !.investments[key] = done.inv], Tail(transactions))

\* Faulty variant: the Investments are put back as they were when a
\* transaction is refused.
RECURSIVE RolledBack(_, _, _)
RolledBack(start, reg, transactions) ==
    IF transactions = << >> THEN reg
    ELSE LET transaction == Head(transactions) IN
         IF transaction.ticker \notin DOMAIN reg.investments
         THEN RolledBack(start,
                  [reg EXCEPT !.warnings = Append(@, transaction.ticker)],
                  Tail(transactions))
         ELSE LET done == add_transaction(reg.investments[transaction.ticker], transaction) IN
              IF done.raised # None
              THEN [reg EXCEPT !.investments = start.investments,
                               !.raised = done.raised]
              ELSE RolledBack(start,
                       [reg EXCEPT !.investments[transaction.ticker] = done.inv],
                       Tail(transactions))

add_transactions_rolls_back(reg, transactions) == RolledBack(reg, reg, transactions)

\* Faulty variant: the ValueError is caught and the loop goes on.
RECURSIVE add_transactions_continues(_, _)
add_transactions_continues(reg, transactions) ==
    IF transactions = << >> THEN reg
    ELSE LET transaction == Head(transactions) IN
         IF transaction.ticker \notin DOMAIN reg.investments
         THEN add_transactions_continues(
                  [reg EXCEPT !.warnings = Append(@, transaction.ticker)],
                  Tail(transactions))
         ELSE LET done == add_transaction(reg.investments[transaction.ticker], transaction) IN
              add_transactions_continues(
                  [reg EXCEPT !.investments[transaction.ticker] = done.inv,
                              !.raised = IF done.raised # None THEN done.raised ELSE @],
                  Tail(transactions))

\* Faulty variant: the loop ends at the first unknown ticker.
RECURSIVE add_transactions_stops_at_unknown(_, _)
add_transactions_stops_at_unknown(reg, transactions) ==
    IF transactions = << >> THEN reg
    ELSE LET transaction == Head(transactions) IN
         IF transaction.ticker \notin DOMAIN reg.investments
         THEN [reg EXCEPT !.warnings = Append(@, transaction.ticker)]
         ELSE LET done == add_transaction(reg.investments[transaction.ticker], transaction) IN
              IF done.raised # None
              THEN [reg EXCEPT !.raised = done.raised]
              ELSE add_transactions_stops_at_unknown(
                       [reg EXCEPT !.investments[transaction.ticker] = done.inv],
                       Tail(transactions))

RECURSIVE add_transactions(_, _)
add_transactions(reg, transactions) ==
    IF transactions = << >> THEN reg
    ELSE LET transaction == Head(transactions) IN
         IF transaction.ticker \notin DOMAIN reg.investments
         THEN add_transactions(
                  [reg EXCEPT !.warnings = Append(@, transaction.ticker)],
                  Tail(transactions))
         ELSE LET done == add_transaction(reg.investments[transaction.ticker], transaction) IN
              IF done.raised # None
              THEN [reg EXCEPT !.raised = done.raised]
              ELSE add_transactions(
                       [reg EXCEPT !.investments[transaction.ticker] = done.inv],
                       Tail(transactions))

\* Faulty variant: the closed Investments are left out.
get_investments_open_only(reg) ==
    SelectSeq([i \in 1..Len(reg.order) |-> reg.investments[reg.order[i]]],
              LAMBDA investment : ~(investment.current_quantity = 0))

get_investments(reg) == [i \in 1..Len(reg.order) |-> reg.investments[reg.order[i]]]

(***************************************************************************)
(* A fresh Inventory and its merge operations, called in any order.  No    *)
(* caller in the repository catches, so a ValueError ends the run.         *)
(***************************************************************************)
Min(a, b) == IF a < b THEN a ELSE b

\* The number of items given to the registry so far.
Fed == Len(curSeen) + Len(prevSeen) + Len(txSeen)

\* The non-empty lists of at most MaxLen items that still fit the run (an
\* empty iterable leaves the registry as it is).
Lists(S) == UNION { [1..n -> S] : n \in 1..Min(MaxLen, MaxItems - Fed) }

EmptyRegistry == Registry(EmptyDict, << >>, << >>, None)

Now == Registry(investments, order, warnings, raised)

Becomes(reg) ==
    /\ investments' = reg.investments
    /\ order' = reg.order
    /\ warnings' = reg.warnings
    /\ raised' = reg.raised

Init ==
    /\ investments = EmptyDict
    /\ order = << >>
    /\ warnings = << >>
    /\ raised = None
    /\ calls = << >>
    /\ curSeen = << >>
    /\ prevSeen = << >>
    /\ txSeen = << >>
    /\ main = None

AddCurrentPositions ==
    /\ raised = None
    /\ \E current \in Lists(Positions) :
        /\ Becomes(add_current_positions(Now, current))
        /\ curSeen' = curSeen \o current
    /\ calls' = Append(calls, "add_current_positions")
    /\ UNCHANGED <<prevSeen, txSeen, main>>

AddPreviousPositions ==
    /\ raised = None
    /\ \E previous \in Lists(Positions) :
        /\ Becomes(add_previous_positions(Now, previous))
        /\ prevSeen' = prevSeen \o previous
    /\ calls' = Append(calls, "add_previous_positions")
    /\ UNCHANGED <<curSeen, txSeen, main>>

AddTransactions ==
    /\ raised = None
    /\ \E transactions \in Lists(Transactions) :
        /\ Becomes(add_transactions(Now, transactions))
        /\ txSeen' = txSeen \o transactions
    /\ calls' = Append(calls, "add_transactions")
    /\ UNCHANGED <<curSeen, prevSeen, main>>

Next == AddCurrentPositions \/ AddPreviousPositions \/ AddTransactions

Spec == Init /\ [][Next]_vars

(***************************************************************************)
(* The command line (cli.py, main), statement by statement.  --current is  *)
(* required; --previous, --inventory (irpf_report) and --transactions are  *)
(* given or not.  A parsed report is any list of what its parser may hand  *)
(* over, the empty one included.                                           *)
(***************************************************************************)
Options ==
    [previous : BOOLEAN, irpf_report : BOOLEAN, transactions : BOOLEAN]

Started(options) ==
    [pc |-> "start", previous |-> options.previous,
     irpf_report |-> options.irpf_report, transactions |-> options.transactions]

\* Faulty variant: the transactions are merged before the previous positions.
After_transactions_first(pc) ==
    CASE pc = "start" -> "transactions"
      [] pc = "transactions" -> "previous"
      [] pc = "previous" -> "irpf_report"
      [] pc = "irpf_report" -> "report"
      [] OTHER -> "exit"

\* The statement that follows, in the order of the function body.
After(pc) ==
    CASE pc = "start" -> "previous"
      [] pc = "previous" -> "irpf_report"
      [] pc = "irpf_report" -> "transactions"
      [] pc = "transactions" -> "report"
      [] OTHER -> "exit"

CliLists(S) == {<< >>} \cup Lists(S)

\* What TransactionsSheetParser hands over: parse_operation maps "compra"
\* and "venda" to BUY and SELL and fails on any other word.
ParsedTransactions == { t \in Transactions : t.operation \in {"BUY", "SELL"} }

CliInit ==
    /\ investments = EmptyDict
    /\ order = << >>
    /\ warnings = << >>
    /\ raised = None
    /\ calls = << >>
    /\ curSeen = << >>
    /\ prevSeen = << >>
    /\ txSeen = << >>
    /\ main \in { Started(options) : options \in Options }

\* if previous is not None and irpf_report is not None: raise UsageError
MainUsageError ==
    /\ main.pc = "start"
    /\ main.previous /\ main.irpf_report
    /\ raised' = "UsageError"
    /\ main' = [main EXCEPT !.pc = "exit"]
    /\ UNCHANGED <<investments, order, warnings, calls, curSeen, prevSeen, txSeen>>

MainCurrent ==
    /\ main.pc = "start"
    /\ ~(main.previous /\ main.irpf_report)
    /\ \E current \in CliLists(Positions) :
        /\ Becomes(add_current_positions(EmptyRegistry, current))
        /\ curSeen' = curSeen \o current
    /\ calls' = Append(calls, "add_current_positions")
    /\ main' = [main EXCEPT !.pc = After(@)]
    /\ UNCHANGED <<prevSeen, txSeen>>

MainPrevious ==
    /\ main.pc = "previous"
    /\ main.previous
    /\ \E previous \in CliLists(Positions) :
        /\ Becomes(add_previous_positions(Now, previous))
        /\ prevSeen' = prevSeen \o previous
    /\ calls' = Append(calls, "add_previous_positions")
    /\ main' = [main EXCEPT !.pc = After(@)]
    /\ UNCHANGED <<curSeen, txSeen>>

MainIrpfReport ==
    /\ main.pc = "irpf_report"
    /\ main.irpf_report
    /\ \E previous \in CliLists(Positions) :
        /\ Becomes(add_previous_positions(Now, previous))
        /\ prevSeen' = prevSeen \o previous
    /\ calls' = Append(calls, "add_previous_positions")
    /\ main' = [main EXCEPT !.pc = After(@)]
    /\ UNCHANGED <<curSeen, txSeen>>

\* parse_report() raises (a missing sheet or column, a row that does not
\* parse): main ends before the merge of that report.
MainParseError ==
    /\ \/ main.pc = "start" /\ ~(main.previous /\ main.irpf_report)
       \/ main.pc \in {"previous", "irpf_report", "transactions"} /\ main[main.pc]
    /\ raised' = "ParseError"
    /\ main' = [main EXCEPT !.pc = "exit"]
    /\ UNCHANGED <<investments, order, warnings, calls, curSeen, prevSeen, txSeen>>

\* An `if ... is not None` whose option was not given.
MainSkip ==
    /\ main.pc \in {"previous", "irpf_report", "transactions"}
    /\ ~main[main.pc]
    /\ main' = [main EXCEPT !.pc = After(@)]
    /\ UNCHANGED <<investments, order, warnings, raised, calls,
                   curSeen, prevSeen, txSeen>>

\* A ValueError of add_transaction is not caught: it ends main.
MainTransactions ==
    /\ main.pc = "transactions"
    /\ main.transactions
    /\ \E transactions \in CliLists(ParsedTransactions) :
        /\ Becomes(add_transactions(Now, transactions))
        /\ txSeen' = txSeen \o transactions
    /\ calls' = Append(calls, "add_transactions")
    /\ main' = [main EXCEPT !.pc = IF raised' = None THEN After(@) ELSE "exit"]
    /\ UNCHANGED <<curSeen, prevSeen>>

\* report.generate_report(inventory.get_investments())
MainReport ==
    /\ main.pc = "report"
    /\ calls' = Append(calls, "get_investments")
    /\ main' = [main EXCEPT !.pc = After(@)]
    /\ UNCHANGED <<investments, order, warnings, raised, curSeen, prevSeen, txSeen>>

CliNext ==
    \/ MainUsageError
    \/ MainCurrent
    \/ MainPrevious
    \/ MainIrpfReport
    \/ MainParseError
    \/ MainSkip
    \/ MainTransactions
    \/ MainReport

CliSpec == CliInit /\ [][CliNext]_vars

(***************************************************************************)
(* What the claims are stated with: sums over the inputs given so far, the *)
(* Investment a position meets, and the steps that pass exactly one item.  *)
(***************************************************************************)
RECURSIVE QtySum(_, _)
QtySum(positions, key) ==
    IF positions = << >> THEN 0
    ELSE (IF Head(positions).asset.key = key THEN Head(positions).quantity ELSE 0)
         + QtySum(Tail(positions), key)

RECURSIVE AmtSum(_, _)
AmtSum(positions, key) ==
    IF positions = << >> THEN 0
    ELSE (IF Head(positions).asset.key = key THEN Head(positions).invested_amount ELSE 0)
         + AmtSum(Tail(positions), key)

Sign(transaction) ==
    IF transaction.operation = "BUY" THEN 1
    ELSE IF transaction.operation = "SELL" THEN -1 ELSE 0

\* (sum over BUYs) minus (sum over SELLs) of quantity
RECURSIVE SignedQty(_)
SignedQty(txs) ==
    IF txs = << >> THEN 0
    ELSE Sign(Head(txs)) * Head(txs).quantity + SignedQty(Tail(txs))

\* (sum over BUYs) minus (sum over SELLs) of total_amount
RECURSIVE SignedAmt(_)
SignedAmt(txs) ==
    IF txs = << >> THEN 0
    ELSE Sign(Head(txs)) * Head(txs).total_amount + SignedAmt(Tail(txs))

RECURSIVE ForTicker(_, _)
ForTicker(txs, key) ==
    IF txs = << >> THEN << >>
    ELSE IF Head(txs).ticker = key THEN <<Head(txs)>> \o ForTicker(Tail(txs), key)
    ELSE ForTicker(Tail(txs), key)

Range(s) == { s[i] : i \in 1..Len(s) }

Max(a, b) == IF a > b THEN a ELSE b

\* The Investment a position is applied to: the stored one, or a new one.
Before(asset) ==
    IF asset.key \in DOMAIN investments THEN investments[asset.key] ELSE Investment(asset)

OneCurrent(p) ==
    calls' = Append(calls, "add_current_positions") /\ curSeen' = Append(curSeen, p)

OnePrevious(p) ==
    calls' = Append(calls, "add_previous_positions") /\ prevSeen' = Append(prevSeen, p)

\* One transaction, for a key the registry holds: add_transaction is called.
OneTransaction(t) ==
    /\ calls' = Append(calls, "add_transactions")
    /\ txSeen' = Append(txSeen, t)
    /\ t.ticker \in DOMAIN investments

(***************************************************************************)
(* C1: add_previous_position(p) adds p.quantity to previous_quantity and   *)
(* p.invested_amount to previous_invested_amount for every asset, and adds *)
(* p.invested_amount to current_invested_amount iff the Investment's asset *)
(* is listed; on a fresh Investment, (100, 1000) gives previous 1000 and   *)
(* current 1000 when listed, current 0 when not.                           *)
(***************************************************************************)
C1_AddPreviousPosition ==
    [][\A p \in Positions : OnePrevious(p) =>
        LET old == Before(p.asset)
            new == investments'[p.asset.key]
        IN /\ new.previous_quantity = old.previous_quantity + p.quantity
           /\ new.previous_invested_amount =
                  old.previous_invested_amount + p.invested_amount
           /\ is_listed(old.asset) =>
                  new.current_invested_amount =
                      old.current_invested_amount + p.invested_amount
           /\ ~is_listed(old.asset) =>
                  new.current_invested_amount = old.current_invested_amount
           /\ (p.asset.key \notin DOMAIN investments
                  /\ p.quantity = 100 /\ p.invested_amount = 1000) =>
                  /\ new.previous_invested_amount = 1000
                  /\ new.current_invested_amount =
                         IF is_listed(p.asset) THEN 1000 ELSE 0
    ]_vars

C1_Witness ==
    /\ prevSeen = <<Position(ListedA, 100, 1000), Position(FixedB, 100, 1000)>>
    /\ curSeen = << >> /\ txSeen = << >>
    /\ investments["KEYA"].previous_invested_amount = 1000
    /\ investments["KEYA"].current_invested_amount = 1000
    /\ investments["KEYB"].previous_invested_amount = 1000
    /\ investments["KEYB"].current_invested_amount = 0

(***************************************************************************)
(* C2: add_transaction(t) with a BUY adds t.quantity to                    *)
(* transactions_balance_quantity and t.total_amount to                     *)
(* transactions_balance_amount and current_invested_amount; with a SELL it *)
(* subtracts them.  After any sequence of BUY/SELL transactions the two    *)
(* balances are (sum over BUYs) minus (sum over SELLs) of quantity and of  *)
(* total_amount.                                                           *)
(***************************************************************************)
C2_Step ==
    \A t \in Transactions : (OneTransaction(t) /\ t.operation \in {"BUY", "SELL"}) =>
        LET old == investments[t.ticker]
            new == investments'[t.ticker]
            s == IF t.operation = "BUY" THEN 1 ELSE -1
        IN /\ new.transactions_balance_quantity =
                  old.transactions_balance_quantity + s * t.quantity
           /\ new.transactions_balance_amount =
                  old.transactions_balance_amount + s * t.total_amount
           /\ new.current_invested_amount =
                  old.current_invested_amount + s * t.total_amount

C2_Balances ==
    \A k \in DOMAIN investments :
        LET inv == investments[k]
            \* Nothing skipped, nothing refused: every transaction given for k
            \* went through add_transaction.
            applied == IF warnings = << >> /\ raised = None
                       THEN ForTicker(txSeen, k) ELSE inv.transactions
        IN /\ inv.transactions_balance_quantity = SignedQty(applied)
           /\ inv.transactions_balance_amount = SignedAmt(applied)
           /\ inv.transactions_balance_quantity = SignedQty(inv.transactions)
           /\ inv.transactions_balance_amount = SignedAmt(inv.transactions)

C2_AddTransaction == []C2_Balances /\ [][C2_Step]_vars

C2_Witness ==
    /\ "KEYA" \in DOMAIN investments
    /\ txSeen = <<Transaction(1, "BUY", "KEYA", 10, 100),
                  Transaction(2, "SELL", "KEYA", 100, 800)>>
    /\ warnings = << >>
    /\ investments["KEYA"].transactions_balance_quantity = -90
    /\ investments["KEYA"].transactions_balance_amount = -700

(***************************************************************************)
(* C3, as claimed: for an Investment whose current_quantity is 100, a SELL *)
(* of quantity 100 dated D results in is_closed() and latest_sell_date = D.*)
(***************************************************************************)
C3_SellClosesPosition ==
    [][\A t \in Transactions :
        (/\ OneTransaction(t)
         /\ t.operation = "SELL" /\ t.quantity = 100
         /\ investments[t.ticker].current_quantity = 100) =>
            /\ is_closed(investments'[t.ticker])
            /\ investments'[t.ticker].latest_sell_date = t.date
    ]_vars

(***************************************************************************)
(* C3, amended: for an Investment whose current_quantity is 100, a SELL of *)
(* quantity 100 dated D leaves current_quantity at 100, so is_closed()     *)
(* stays false; latest_sell_date becomes D when D is strictly later than   *)
(* the stored value and is unchanged otherwise.                            *)
(***************************************************************************)
C3_SellLeavesQuantity ==
    [][\A t \in Transactions :
        (/\ OneTransaction(t)
         /\ t.operation = "SELL" /\ t.quantity = 100
         /\ investments[t.ticker].current_quantity = 100) =>
            /\ investments'[t.ticker].current_quantity = 100
            /\ ~is_closed(investments'[t.ticker])
            /\ investments'[t.ticker].latest_sell_date =
                   Max(investments[t.ticker].latest_sell_date, t.date)
    ]_vars

C3_Witness ==
    /\ curSeen = <<Position(ListedA, 100, 0)>>
    /\ txSeen = <<Transaction(2, "SELL", "KEYA", 100, 800)>>
    /\ investments["KEYA"].transactions = txSeen
    /\ investments["KEYA"].current_quantity = 100
    /\ ~is_closed(investments["KEYA"])
    /\ investments["KEYA"].latest_sell_date = 2

(***************************************************************************)
(* C4: in every reachable state is_closed() is true iff current_quantity   *)
(* is exactly 0, current_quantity being the sum of the quantities of all   *)
(* current positions applied to the Investment.                            *)
(***************************************************************************)
C4_ClosedIffZero ==
    \A k \in DOMAIN investments :
        /\ investments[k].current_quantity = QtySum(curSeen, k)
        /\ is_closed(investments[k]) <=> (QtySum(curSeen, k) = 0)

C4_Witness ==
    /\ curSeen = <<Position(ListedA, 100, 0), Position(ListedA, -100, 0)>>
    /\ is_closed(investments["KEYA"])

(***************************************************************************)
(* C5: in every reachable state result = -(previous_invested_amount +      *)
(* transactions_balance_amount), that is the proceeds of the SELLs minus   *)
(* the cost of the BUYs minus the previous invested amounts; with a        *)
(* previous amount of 500 and a single SELL of 800 it is +300: a profit is *)
(* positive, a loss negative.                                              *)
(***************************************************************************)
C5_Result ==
    \A k \in DOMAIN investments :
        LET inv == investments[k] IN
        /\ result(inv) = -(inv.previous_invested_amount + inv.transactions_balance_amount)
        /\ result(inv) = -SignedAmt(inv.transactions) - AmtSum(prevSeen, k)
        /\ (/\ inv.previous_invested_amount = 500
            /\ Len(inv.transactions) = 1
            /\ inv.transactions[1].operation = "SELL"
            /\ inv.transactions[1].total_amount = 800) => result(inv) = 300
        /\ loss_or_profit(inv) = "lucro" <=>
               -SignedAmt(inv.transactions) >= AmtSum(prevSeen, k)

C5_Witness ==
    /\ prevSeen = <<Position(ListedA, 100, 500)>>
    /\ investments["KEYA"].transactions = <<Transaction(2, "SELL", "KEYA", 100, 800)>>
    /\ investments["KEYA"].transactions_balance_amount = -800
    /\ result(investments["KEYA"]) = 300
    /\ loss_or_profit(investments["KEYA"]) = "lucro"

(***************************************************************************)
(* C6: in every reachable state has_missing_transactions() is false for a  *)
(* non-listed asset whatever its quantities, and for a listed asset it is  *)
(* false exactly when previous_quantity + transactions_balance_quantity =  *)
(* current_quantity.                                                       *)
(***************************************************************************)
C6_MissingTransactions ==
    \A k \in DOMAIN investments :
        LET inv == investments[k]
            explained == QtySum(prevSeen, k) + SignedQty(inv.transactions)
        IN IF is_listed(inv.asset)
           THEN /\ has_missing_transactions(inv) <=> (explained # QtySum(curSeen, k))
                /\ ~has_missing_transactions(inv) <=>
                       (inv.previous_quantity + inv.transactions_balance_quantity
                            = inv.current_quantity)
           ELSE ~has_missing_transactions(inv)

C6_Witness ==
    /\ DOMAIN investments = {"KEYA", "KEYB"}
    /\ is_listed(investments["KEYA"].asset)
    /\ investments["KEYA"].previous_quantity = 100
    /\ investments["KEYA"].transactions_balance_quantity = -100
    /\ investments["KEYA"].current_quantity = 0
    /\ ~has_missing_transactions(investments["KEYA"])
    /\ ~is_listed(investments["KEYB"].asset)
    /\ investments["KEYB"].previous_quantity # investments["KEYB"].current_quantity
    /\ ~has_missing_transactions(investments["KEYB"])

(***************************************************************************)
(* C7: in every reachable state repeat_amount() is true iff                *)
(* previous_invested_amount = current_invested_amount and                  *)
(* previous_quantity = current_quantity; with either pair unequal it is    *)
(* false.                                                                  *)
(***************************************************************************)
C7_RepeatAmount ==
    \A k \in DOMAIN investments :
        LET inv == investments[k]
            carried == IF is_listed(inv.asset) THEN AmtSum(prevSeen, k) ELSE 0
        IN /\ repeat_amount(inv) <=>
                  (/\ inv.previous_invested_amount = inv.current_invested_amount
                   /\ inv.previous_quantity = inv.current_quantity)
           /\ repeat_amount(inv) <=>
                  (/\ AmtSum(prevSeen, k) =
                          AmtSum(curSeen, k) + carried + SignedAmt(inv.transactions)
                   /\ QtySum(prevSeen, k) = QtySum(curSeen, k))
           /\ inv.previous_quantity # inv.current_quantity => ~repeat_amount(inv)
           /\ inv.previous_invested_amount # inv.current_invested_amount =>
                  ~repeat_amount(inv)

C7_Witness ==
    /\ prevSeen = <<Position(FixedB, 10, 100)>>
    /\ curSeen = <<Position(FixedB, 10, 100)>>
    /\ investments["KEYB"].previous_quantity = 10
    /\ investments["KEYB"].current_quantity = 10
    /\ investments["KEYB"].previous_invested_amount = 100
    /\ investments["KEYB"].current_invested_amount = 100
    /\ repeat_amount(investments["KEYB"])

(***************************************************************************)
(* C8: for any sequence of add_current_position calls on one Investment,   *)
(* current_quantity and current_invested_amount are the sums of the        *)
(* positions' quantities and invested amounts, and every permutation of    *)
(* the calls gives the same totals.                                        *)
(***************************************************************************)
C8_CurrentAdditive ==
    \A k \in DOMAIN investments :
        LET inv == investments[k] IN
        /\ inv.current_quantity = QtySum(curSeen, k)
        \* with current positions only, the amount is their sum too
        /\ (prevSeen = << >> /\ inv.transactions = << >>) =>
               inv.current_invested_amount = AmtSum(curSeen, k)

C8_Witness ==
    /\ curSeen = <<Position(ListedA, 10, 100), Position(ListedA, 100, 1000),
                   Position(ListedA, 100, 500)>>
    /\ investments["KEYA"].current_quantity = 210
    /\ investments["KEYA"].current_invested_amount = 1600

(***************************************************************************)
(* C9, as claimed (carry-forward): for every listed asset, after any       *)
(* sequence of Inventory operations, current_invested_amount =             *)
(* previous_invested_amount + transactions_balance_amount.                 *)
(***************************************************************************)
C9_CarryForward ==
    \A k \in DOMAIN investments :
        LET inv == investments[k] IN
        is_listed(inv.asset) =>
            inv.current_invested_amount =
                inv.previous_invested_amount + inv.transactions_balance_amount

(***************************************************************************)
(* C9, amended: for every listed asset, after any sequence of Inventory    *)
(* operations, current_invested_amount = previous_invested_amount +        *)
(* transactions_balance_amount + the invested amounts of the current       *)
(* positions applied to it (0 for positions built with the default).       *)
(***************************************************************************)
C9_CarryForwardPlusCurrent ==
    \A k \in DOMAIN investments :
        LET inv == investments[k] IN
        is_listed(inv.asset) =>
            /\ inv.current_invested_amount =
                   inv.previous_invested_amount + inv.transactions_balance_amount
                       + AmtSum(curSeen, k)
            /\ inv.current_invested_amount =
                   AmtSum(prevSeen, k) + SignedAmt(inv.transactions) + AmtSum(curSeen, k)

C9_Witness ==
    /\ curSeen = <<Position(ListedA, 100, 1000)>>
    /\ prevSeen = <<Position(ListedA, 100, 500)>>
    /\ investments["KEYA"].transactions = <<Transaction(1, "BUY", "KEYA", 10, 100)>>
    /\ is_listed(investments["KEYA"].asset)
    /\ investments["KEYA"].previous_invested_amount = 500
    /\ investments["KEYA"].transactions_balance_amount = 100
    /\ investments["KEYA"].current_invested_amount = 1600

(***************************************************************************)
(* C10.  The six totals of every Investment of a registry, and the         *)
(* registry the command line's order (current, previous, transactions)     *)
(* builds from the inputs given so far.                                    *)
(***************************************************************************)
Totals(reg) ==
    [k \in DOMAIN reg.investments |->
        LET inv == reg.investments[k] IN
        <<inv.current_quantity, inv.current_invested_amount,
          inv.previous_quantity, inv.previous_invested_amount,
          inv.transactions_balance_quantity, inv.transactions_balance_amount>>]

InCliOrder ==
    add_transactions(
        add_previous_positions(add_current_positions(EmptyRegistry, curSeen), prevSeen),
        txSeen)

EachStreamOnce == \A i, j \in 1..Len(calls) : calls[i] = calls[j] => i = j

\* No position stream is applied after a transaction stream.
TransactionsLast ==
    \A i, j \in 1..Len(calls) :
        (i < j /\ calls[i] = "add_transactions") => calls[j] = "add_transactions"

\* Positions that share a key agree on is_listed.
KeysAgreeOnListed ==
    \A p, q \in Range(curSeen \o prevSeen) :
        p.asset.key = q.asset.key => is_listed(p.asset) = is_listed(q.asset)

TransactionsStep == calls' = Append(calls, "add_transactions")

Given == SubSeq(txSeen', Len(txSeen) + 1, Len(txSeen'))

Refused(t) == t.ticker \in DOMAIN investments /\ t.operation \notin {"BUY", "SELL"}

Offender(xs) ==
    IF \E i \in 1..Len(xs) : Refused(xs[i])
    THEN CHOOSE i \in 1..Len(xs) : Refused(xs[i]) /\ \A j \in 1..(i - 1) : ~Refused(xs[j])
    ELSE Len(xs) + 1

Reached(xs) == SubSeq(xs, 1, Offender(xs) - 1)

RECURSIVE UnknownTickers(_)
UnknownTickers(xs) ==
    IF xs = << >> THEN << >>
    ELSE (IF Head(xs).ticker \in DOMAIN investments THEN << >> ELSE <<Head(xs).ticker>>)
         \o UnknownTickers(Tail(xs))

RECURSIVE Known(_)
Known(xs) ==
    IF xs = << >> THEN << >>
    ELSE (IF Head(xs).ticker \in DOMAIN investments THEN <<Head(xs)>> ELSE << >>)
         \o Known(Tail(xs))

(***************************************************************************)
(* C11: add_transaction with an operation that is neither BUY nor SELL     *)
(* raises an error naming the asset key and leaves every total and         *)
(* latest_sell_date unchanged.                                             *)
(***************************************************************************)
C11_UnsupportedOperation ==
    [][\A t \in Transactions :
        (OneTransaction(t) /\ t.operation \notin {"BUY", "SELL"}) =>
            LET old == investments[t.ticker]
                new == investments'[t.ticker]
            IN /\ raised' = old.asset.key
               /\ raised' # None
               /\ new.current_quantity = old.current_quantity
               /\ new.current_invested_amount = old.current_invested_amount
               /\ new.previous_quantity = old.previous_quantity
               /\ new.previous_invested_amount = old.previous_invested_amount
               /\ new.transactions_balance_quantity = old.transactions_balance_quantity
               /\ new.transactions_balance_amount = old.transactions_balance_amount
               /\ new.latest_sell_date = old.latest_sell_date
    ]_vars

C11_Witness ==
    /\ curSeen = <<Position(ListedA, 100, 1000)>>
    /\ txSeen = <<Transaction(2, "SELL", "KEYA", 100, 800),
                  Transaction(1, "OTHER", "KEYA", 10, 100)>>
    /\ calls = <<"add_current_positions", "add_transactions", "add_transactions">>
    /\ raised = "KEYA"
    /\ investments["KEYA"].transactions_balance_amount = -800
    /\ investments["KEYA"].current_invested_amount = 200
    /\ investments["KEYA"].latest_sell_date = 2

(***************************************************************************)
(* C12: an unsupported operation is fatal for the run: the error leaves    *)
(* Inventory.add_transactions uncaught, no transaction that follows the    *)
(* offending one in the input is applied to any Investment, and nothing    *)
(* runs after it.                                                          *)
(***************************************************************************)
C12_Fatal ==
    [][/\ raised = None
       /\ (TransactionsStep /\ Offender(Given) <= Len(Given)) =>
            /\ raised' = Given[Offender(Given)].ticker
            /\ DOMAIN investments' = DOMAIN investments
            /\ \A k \in DOMAIN investments :
                 LET old == investments[k]
                     new == investments'[k]
                     done == ForTicker(Reached(Given), k)
                 IN /\ new.transactions = old.transactions \o done
                    /\ new.transactions_balance_quantity =
                           old.transactions_balance_quantity + SignedQty(done)
                    /\ new.transactions_balance_amount =
                           old.transactions_balance_amount + SignedAmt(done)
                    /\ new.current_invested_amount =
                           old.current_invested_amount + SignedAmt(done)
    ]_vars

C12_Witness ==
    /\ curSeen = <<Position(ListedA, 100, 1000)>>
    /\ txSeen = <<Transaction(1, "OTHER", "KEYA", 10, 100),
                  Transaction(1, "BUY", "KEYA", 10, 100)>>
    /\ raised = "KEYA"
    /\ investments["KEYA"].transactions = << >>
    /\ investments["KEYA"].transactions_balance_quantity = 0
    /\ investments["KEYA"].current_invested_amount = 1000

(***************************************************************************)
(* C13: add_transactions fails soft on unknown references: a transaction   *)
(* whose ticker is not a key of the registry is skipped without raising, a *)
(* warning is emitted, the registry's keys and Investments are not changed *)
(* by it, and the other transactions of the input are processed exactly as *)
(* if the skipped one were absent.                                         *)
(***************************************************************************)
C13_FailSoft ==
    [][TransactionsStep =>
        LET without == add_transactions(Now, Known(Given)) IN
        /\ warnings' = warnings \o UnknownTickers(Reached(Given))
        /\ DOMAIN investments' = DOMAIN investments
        /\ order' = order
        /\ investments' = without.investments
        /\ raised' = without.raised
        /\ raised' # None => Offender(Given) <= Len(Given)
        /\ Known(Given) = << >> => (investments' = investments /\ raised' = None)
    ]_vars

C13_Witness ==
    /\ curSeen = <<Position(ListedA, 100, 1000)>>
    /\ txSeen = <<Transaction(1, "BUY", "KEYC", 10, 100),
                  Transaction(1, "BUY", "KEYA", 10, 100)>>
    /\ calls = <<"add_current_positions", "add_transactions">>
    /\ warnings = <<"KEYC">>
    /\ raised = None
    /\ DOMAIN investments = {"KEYA"}
    /\ investments["KEYA"].transactions = <<Transaction(1, "BUY", "KEYA", 10, 100)>>
    /\ investments["KEYA"].current_invested_amount = 1100

\* The keys of the positions given so far, in either stream.
PositionKeys == { p.asset.key : p \in Range(curSeen \o prevSeen) }

(***************************************************************************)
(* C14, as claimed: each of the three merge operations, add_transactions   *)
(* included, get-or-creates the Investment for the item's key: an asset    *)
(* that appears only in the transaction stream ends up with an Investment  *)
(* to which the transaction is applied.                                    *)
(***************************************************************************)
C14_TransactionsCreate ==
    raised = None =>
        \A i \in 1..Len(txSeen) :
            /\ txSeen[i].ticker \in DOMAIN investments
            /\ txSeen[i] \in Range(investments[txSeen[i].ticker].transactions)

(***************************************************************************)
(* C14, amended: add_current_positions and add_previous_positions          *)
(* get-or-create the Investment for the position's key; add_transactions   *)
(* never creates one: the registry holds exactly the keys of the positions *)
(* given to it, and a transaction reached for a ticker outside them is     *)
(* skipped with a warning.                                                 *)
(***************************************************************************)
C14_OnlyPositionsCreate ==
    /\ DOMAIN investments = PositionKeys
    /\ \A k \in DOMAIN investments :
           Range(investments[k].transactions) \subseteq Range(txSeen)
    /\ raised = None =>
           \A i \in 1..Len(txSeen) :
               txSeen[i].ticker \notin PositionKeys =>
                   txSeen[i].ticker \in Range(warnings)

C14_Witness ==
    /\ curSeen = <<Position(ListedA, 100, 0)>>
    /\ txSeen = <<Transaction(1, "BUY", "KEYC", 10, 100)>>
    /\ calls = <<"add_current_positions", "add_transactions">>
    /\ DOMAIN investments = {"KEYA"}
    /\ warnings = <<"KEYC">>
    /\ raised = None

(***************************************************************************)
(* C15: add_current_positions and add_previous_positions create the        *)
(* Investment the first time a position names a key the registry does not  *)
(* hold, with the six totals zero, no transactions and the default         *)
(* latest_sell_date, and then apply the position; an asset present only in *)
(* previous positions has current_quantity 0 (is_closed()) and the         *)
(* previous totals of its positions.                                       *)
(***************************************************************************)
C15_Step ==
    \A p \in Positions : p.asset.key \notin DOMAIN investments =>
        /\ OneCurrent(p) =>
             investments'[p.asset.key] =
                 [asset |-> p.asset,
                  current_invested_amount |-> p.invested_amount,
                  current_quantity |-> p.quantity,
                  previous_invested_amount |-> 0,
                  previous_quantity |-> 0,
                  transactions_balance_quantity |-> 0,
                  transactions_balance_amount |-> 0,
                  transactions |-> << >>,
                  latest_sell_date |-> Epoch]
        /\ OnePrevious(p) =>
             /\ investments'[p.asset.key] =
                 [asset |-> p.asset,
                  current_invested_amount |->
                      IF is_listed(p.asset) THEN p.invested_amount ELSE 0,
                  current_quantity |-> 0,
                  previous_invested_amount |-> p.invested_amount,
                  previous_quantity |-> p.quantity,
                  transactions_balance_quantity |-> 0,
                  transactions_balance_amount |-> 0,
                  transactions |-> << >>,
                  latest_sell_date |-> Epoch]
             /\ is_closed(investments'[p.asset.key])

C15_PreviousOnly ==
    \A k \in DOMAIN investments :
        (\A p \in Range(curSeen) : p.asset.key # k) =>
            /\ investments[k].current_quantity = 0
            /\ is_closed(investments[k])
            /\ investments[k].previous_quantity = QtySum(prevSeen, k)
            /\ investments[k].previous_invested_amount = AmtSum(prevSeen, k)

C15_LazyCreation == []C15_PreviousOnly /\ [][C15_Step]_vars

C15_Witness ==
    /\ prevSeen = <<Position(FixedB, 100, 1000)>>
    /\ curSeen = << >>
    /\ txSeen = << >>
    /\ investments["KEYB"] =
           [Investment(FixedB) EXCEPT !.previous_quantity = 100,
                                      !.previous_invested_amount = 1000]
    /\ is_closed(investments["KEYB"])

(***************************************************************************)
(* C16: in every reachable state the registry holds exactly one Investment *)
(* per distinct key seen in the position streams, positions with the same  *)
(* key accumulate into it, and the key set never shrinks: no operation     *)
(* removes an Investment, one whose current_quantity is 0 included.        *)
(***************************************************************************)
C16_OnePerKey ==
    /\ DOMAIN investments = PositionKeys
    /\ Range(order) = DOMAIN investments
    /\ Len(order) = Cardinality(DOMAIN investments)
    /\ Len(get_investments(Now)) = Cardinality(PositionKeys)
    /\ \A k \in DOMAIN investments :
           /\ investments[k].asset.key = k
           /\ investments[k].current_quantity = QtySum(curSeen, k)
           /\ investments[k].previous_quantity = QtySum(prevSeen, k)
           /\ investments[k].previous_invested_amount = AmtSum(prevSeen, k)

C16_NeverShrinks ==
    /\ DOMAIN investments \subseteq DOMAIN investments'
    /\ \A i \in 1..Len(order) : i <= Len(order') /\ order'[i] = order[i]

C16_Registry == []C16_OnePerKey /\ [][C16_NeverShrinks]_vars

C16_Witness ==
    /\ prevSeen = <<Position(FixedB, 100, 1000)>>
    /\ curSeen = <<Position(ListedA, 100, 0), Position(ListedACnpj, 100, 0)>>
    /\ DOMAIN investments = {"KEYA", "KEYB"}
    /\ investments["KEYA"].current_quantity = 200
    /\ is_closed(investments["KEYB"])

(***************************************************************************)
(* The registry after a step, the positions the step was given, and the    *)
(* keys of a list of positions that are not in `have`, each once, in the   *)
(* order of their first appearance.                                        *)
(***************************************************************************)
NowNext == Registry(investments', order', warnings', raised')

GivenPositions ==
    SubSeq(curSeen', Len(curSeen) + 1, Len(curSeen'))
        \o SubSeq(prevSeen', Len(prevSeen) + 1, Len(prevSeen'))

RECURSIVE FirstSeen(_, _)
FirstSeen(positions, have) ==
    IF positions = << >> THEN << >>
    ELSE LET key == Head(positions).asset.key
         IN IF key \in have THEN FirstSeen(Tail(positions), have)
            ELSE <<key>> \o FirstSeen(Tail(positions), have \cup {key})

Keys(invs) == [i \in 1..Len(invs) |-> invs[i].asset.key]

(***************************************************************************)
(* C17: get_investments() returns every Investment of the registry exactly *)
(* once, closed ones included, in the order in which their keys were first *)
(* created: a step appends the keys it creates, in the order of their      *)
(* first appearance in the list given, after the keys already there, and   *)
(* a later change of an existing key does not move it.                     *)
(***************************************************************************)
C17_Everything ==
    LET invs == get_investments(Now) IN
    /\ Len(invs) = Cardinality(DOMAIN investments)
    /\ \A k \in DOMAIN investments :
           \E i \in 1..Len(invs) :
               /\ invs[i] = investments[k]
               /\ \A j \in 1..Len(invs) : invs[j].asset.key = k => j = i

C17_Step ==
    Keys(get_investments(NowNext)) =
        Keys(get_investments(Now)) \o FirstSeen(GivenPositions, DOMAIN investments)

C17_CreationOrder == []C17_Everything /\ [][C17_Step]_vars

C17_Witness ==
    /\ calls = <<"add_previous_positions", "add_current_positions",
                 "add_previous_positions">>
    /\ Keys(get_investments(Now)) = <<"KEYB", "KEYA">>
    /\ get_investments(Now)[1].previous_quantity = 200
    /\ is_closed(get_investments(Now)[1])
    /\ ~is_closed(get_investments(Now)[2])

(***************************************************************************)
(* C18, as claimed: every transaction passed to add_transaction, whatever  *)
(* its operation, is appended to the Investment's transactions.            *)
(***************************************************************************)
C18_AlwaysAppended ==
    [][\A t \in Transactions : OneTransaction(t) =>
          investments'[t.ticker].transactions =
              Append(investments[t.ticker].transactions, t)
    ]_vars

(***************************************************************************)
(* C18, amended: every BUY or SELL passed to add_transaction is appended   *)
(* to the Investment's transactions, which keeps them in the order the     *)
(* caller gave them (not the order of their dates); a transaction with     *)
(* another operation raises before the append and is not retained.         *)
(***************************************************************************)
C18_Step ==
    /\ \A t \in Transactions : OneTransaction(t) =>
           investments'[t.ticker].transactions =
               IF t.operation \in {"BUY", "SELL"}
               THEN Append(investments[t.ticker].transactions, t)
               ELSE investments[t.ticker].transactions
    /\ TransactionsStep =>
           \A k \in DOMAIN investments :
               investments'[k].transactions =
                   investments[k].transactions \o ForTicker(Reached(Given), k)

C18_TradesAppended == [][C18_Step]_vars

C18_Witness ==
    /\ "KEYA" \in DOMAIN investments
    /\ investments["KEYA"].transactions =
           <<Transaction(2, "SELL", "KEYA", 100, 800),
             Transaction(1, "SELL", "KEYA", 100, 800)>>
    /\ raised = None

(***************************************************************************)
(* C19: latest_sell_date is the later of 1970-01-01 and the dates of the   *)
(* SELLs applied, in whatever order they were applied; it never decreases  *)
(* and a BUY never changes it.                                             *)
(***************************************************************************)
RECURSIVE LatestSell(_)
LatestSell(txs) ==
    IF txs = << >> THEN Epoch
    ELSE IF Head(txs).operation = "SELL"
         THEN Max(Head(txs).date, LatestSell(Tail(txs)))
         ELSE LatestSell(Tail(txs))

C19_IsMaximum ==
    \A k \in DOMAIN investments :
        investments[k].latest_sell_date = LatestSell(investments[k].transactions)

C19_Step ==
    /\ \A k \in DOMAIN investments :
           investments'[k].latest_sell_date >= investments[k].latest_sell_date
    /\ \A t \in Transactions :
           OneTransaction(t) =>
               LET old == investments[t.ticker].latest_sell_date
                   new == investments'[t.ticker].latest_sell_date
               IN /\ t.operation = "BUY" => new = old
                  /\ new # old => t.operation = "SELL" /\ t.date > old /\ new = t.date

C19_LatestSellDate == []C19_IsMaximum /\ [][C19_Step]_vars

C19_Witness ==
    /\ "KEYA" \in DOMAIN investments
    /\ investments["KEYA"].transactions =
           <<Transaction(2, "SELL", "KEYA", 100, 800),
             Transaction(-1, "SELL", "KEYA", 10, 100)>>
    /\ investments["KEYA"].latest_sell_date = 2

(***************************************************************************)
(* C20: add_current_positions and add_previous_positions backfill the      *)
(* CNPJ of the stored asset: once positions of a listed asset with and     *)
(* without a CNPJ have been merged for one key, in either order, the       *)
(* Investment's asset gives the known CNPJ, and a known CNPJ is never      *)
(* replaced by a placeholder ("Desconhecido", "N/A").                      *)
(***************************************************************************)
CarriesCnpj(p) == p.asset.class = "StockExchangeListed" /\ p.asset.cnpj # None

C20_Known ==
    \A k \in DOMAIN investments :
        (/\ investments[k].asset.class = "StockExchangeListed"
         /\ \E p \in Range(curSeen \o prevSeen) : p.asset.key = k /\ CarriesCnpj(p))
            => get_cnpj(investments[k].asset) = FormattedCnpj

C20_Kept ==
    \A k \in DOMAIN investments :
        get_cnpj(investments[k].asset) = FormattedCnpj =>
            get_cnpj(investments'[k].asset) = FormattedCnpj

C20_Backfill == []C20_Known /\ [][C20_Kept]_vars

\* Created by a position without a CNPJ, backfilled by a later one, and
\* then given a position without a CNPJ again.
C20_Witness ==
    /\ curSeen = <<Position(ListedA, 100, 0), Position(ListedA, 10, 100)>>
    /\ prevSeen = <<Position(ListedACnpj, 100, 0)>>
    /\ calls = <<"add_current_positions", "add_previous_positions",
                 "add_current_positions">>
    /\ investments["KEYA"].asset.cnpj = FormattedCnpj
    /\ get_cnpj(investments["KEYA"].asset) = FormattedCnpj

(***************************************************************************)
(* C21: each mutator of Investment changes only its own fields.            *)
(* add_transaction (BUY or SELL) leaves current_quantity,                  *)
(* previous_quantity and previous_invested_amount as they were;            *)
(* add_current_position leaves the previous totals, both transaction       *)
(* balances, the transactions and latest_sell_date; add_previous_position  *)
(* leaves current_quantity, both transaction balances, the transactions    *)
(* and latest_sell_date.                                                   *)
(***************************************************************************)
SameTransactionFields(old, new) ==
    /\ new.transactions_balance_quantity = old.transactions_balance_quantity
    /\ new.transactions_balance_amount = old.transactions_balance_amount
    /\ new.transactions = old.transactions
    /\ new.latest_sell_date = old.latest_sell_date

C21_Step ==
    /\ \A t \in Transactions :
           (OneTransaction(t) /\ t.operation \in {"BUY", "SELL"}) =>
               LET old == investments[t.ticker]
                   new == investments'[t.ticker]
               IN /\ new.current_quantity = old.current_quantity
                  /\ new.previous_quantity = old.previous_quantity
                  /\ new.previous_invested_amount = old.previous_invested_amount
    /\ \A p \in Positions :
           OneCurrent(p) =>
               LET old == Before(p.asset)
                   new == investments'[p.asset.key]
               IN /\ new.previous_quantity = old.previous_quantity
                  /\ new.previous_invested_amount = old.previous_invested_amount
                  /\ SameTransactionFields(old, new)
    /\ \A p \in Positions :
           OnePrevious(p) =>
               LET old == Before(p.asset)
                   new == investments'[p.asset.key]
               IN /\ new.current_quantity = old.current_quantity
                  /\ SameTransactionFields(old, new)

C21_Frame == [][C21_Step]_vars

C21_Witness ==
    /\ calls = <<"add_current_positions", "add_transactions",
                 "add_previous_positions">>
    /\ curSeen = <<Position(ListedA, 100, 1000)>>
    /\ prevSeen = <<Position(ListedA, 10, 100)>>
    /\ txSeen = <<Transaction(2, "SELL", "KEYA", 100, 800)>>
    /\ investments["KEYA"] =
           [asset |-> ListedA,
            current_invested_amount |-> 300,
            current_quantity |-> 100,
            previous_invested_amount |-> 100,
            previous_quantity |-> 10,
            transactions_balance_quantity |-> -100,
            transactions_balance_amount |-> -800,
            transactions |-> <<Transaction(2, "SELL", "KEYA", 100, 800)>>,
            latest_sell_date |-> 2]

(***************************************************************************)
(* C22: add_transactions is not atomic.  When a transaction of the list    *)
(* has an unsupported operation, the transactions before it have been      *)
(* applied and stay applied: each Investment keeps their effect on the     *)
(* balances, current_invested_amount, the transactions and                 *)
(* latest_sell_date, and nothing is rolled back.                           *)
(***************************************************************************)
C22_Step ==
    (TransactionsStep /\ raised' # None) =>
        /\ Offender(Given) <= Len(Given)
        /\ raised' = Given[Offender(Given)].ticker
        /\ \A k \in DOMAIN investments :
               LET old == investments[k]
                   new == investments'[k]
                   applied == ForTicker(Reached(Given), k)
               IN /\ new.transactions_balance_quantity =
                         old.transactions_balance_quantity + SignedQty(applied)
                  /\ new.transactions_balance_amount =
                         old.transactions_balance_amount + SignedAmt(applied)
                  /\ new.current_invested_amount =
                         old.current_invested_amount + SignedAmt(applied)
                  /\ new.transactions = old.transactions \o applied
                  /\ new.latest_sell_date =
                         Max(old.latest_sell_date, LatestSell(applied))

C22_NotAtomic == [][C22_Step]_vars

C22_Witness ==
    /\ calls = <<"add_current_positions", "add_transactions">>
    /\ txSeen = <<Transaction(2, "SELL", "KEYA", 100, 800),
                  Transaction(1, "OTHER", "KEYA", 10, 100)>>
    /\ raised = "KEYA"
    /\ investments["KEYA"].transactions = <<Transaction(2, "SELL", "KEYA", 100, 800)>>
    /\ investments["KEYA"].transactions_balance_quantity = -100
    /\ investments["KEYA"].latest_sell_date = 2

(***************************************************************************)
(* C23: the asset of an Investment is fixed at creation.  It is the asset  *)
(* of the first position seen for the key; a later position with the same  *)
(* key never replaces it, only its CNPJ may be updated.  So the first      *)
(* position decides whether the carry-forward and the missing-transaction  *)
(* detection apply, whatever kind of asset later positions carry.          *)
(***************************************************************************)
FirstFor(positions, key) ==
    positions[CHOOSE i \in 1..Len(positions) :
                  /\ positions[i].asset.key = key
                  /\ \A j \in 1..(i - 1) : positions[j].asset.key # key]

SameAsset(a, b) == a.class = b.class /\ a.key = b.key

C23_Step ==
    /\ \A k \in DOMAIN investments :
           /\ SameAsset(investments'[k].asset, investments[k].asset)
           /\ investments'[k].asset # investments[k].asset =>
                  get_cnpj(investments[k].asset) = UnknownCnpj
    /\ \A k \in DOMAIN investments' \ DOMAIN investments :
           SameAsset(investments'[k].asset, FirstFor(GivenPositions, k).asset)
    /\ \A p \in Positions :
           (OnePrevious(p) /\ p.asset.key \in DOMAIN investments) =>
               LET old == investments[p.asset.key]
                   new == investments'[p.asset.key]
               IN new.current_invested_amount =
                      old.current_invested_amount
                          + (IF is_listed(old.asset) THEN p.invested_amount ELSE 0)

C23_FirstKind ==
    \A k \in DOMAIN investments :
        ~is_listed(investments[k].asset) => ~has_missing_transactions(investments[k])

C23_AssetFixed == []C23_FirstKind /\ [][C23_Step]_vars

\* Created by a fixed-income position, then given a listed one: no
\* carry-forward, and no missing transactions although 100 + 0 # 200.
C23_Witness ==
    /\ calls = <<"add_current_positions", "add_previous_positions">>
    /\ curSeen = <<Position(FixedA, 100, 1000), Position(ListedA, 100, 0)>>
    /\ prevSeen = <<Position(ListedA, 100, 500)>>
    /\ investments["KEYA"].asset = FixedA
    /\ investments["KEYA"].current_quantity = 200
    /\ investments["KEYA"].current_invested_amount = 1000
    /\ ~has_missing_transactions(investments["KEYA"])

(***************************************************************************)
(* The command-line run: whether a method was called, the calls a run      *)
(* with these options makes when nothing ends it early, and the            *)
(* transactions of the report the run has reached.                         *)
(***************************************************************************)
Ran(method) == \E i \in 1..Len(calls) : calls[i] = method

Expected ==
    IF main.previous /\ main.irpf_report THEN << >>
    ELSE <<"add_current_positions">>
         \o (IF main.previous \/ main.irpf_report
             THEN <<"add_previous_positions">> ELSE << >>)
         \o (IF main.transactions THEN <<"add_transactions">> ELSE << >>)
         \o <<"get_investments">>

IsPrefix(a, b) == Len(a) <= Len(b) /\ SubSeq(b, 1, Len(a)) = a

\* Current, then previous at most once, then transactions, then the result.
C24_Order ==
    /\ IsPrefix(calls, Expected)
    /\ (main.pc = "exit" /\ raised = None) => calls = Expected
    /\ raised = "UsageError" <=> (main.pc = "exit" /\ main.previous /\ main.irpf_report)

C24_ReadLast ==
    Ran("get_investments") =>
        UNCHANGED <<investments, order, warnings, raised, calls,
                    curSeen, prevSeen, txSeen>>

(***************************************************************************)
(* C24: a command-line run merges current positions, then previous         *)
(* positions (from the previous broker report or the previous              *)
(* declaration, never both), then transactions, and reads the result only  *)
(* afterwards; so a transaction of the run is skipped if and only if its   *)
(* ticker is in neither the current nor the previous positions, and a      *)
(* transaction for an asset that only the previous positions hold is       *)
(* applied.                                                                *)
(***************************************************************************)
C24_SkippedIffAbsent ==
    Ran("add_transactions") =>
        /\ warnings = UnknownTickers(txSeen)
        /\ \A i \in 1..Len(txSeen) :
               LET t == txSeen[i] IN
               /\ t.ticker \in Range(warnings) <=> t.ticker \notin PositionKeys
               /\ t.ticker \in Range(warnings) =>
                      /\ t.ticker \notin DOMAIN investments
                      /\ \A k \in DOMAIN investments :
                             t \notin Range(investments[k].transactions)
               /\ (/\ \E p \in Range(prevSeen) : p.asset.key = t.ticker
                   /\ \A p \in Range(curSeen) : p.asset.key # t.ticker)
                      => t \in Range(investments[t.ticker].transactions)
        /\ \A k \in PositionKeys :
               investments[k].transactions = ForTicker(txSeen, k)

C24_FixedOrder == [](C24_Order /\ C24_SkippedIffAbsent) /\ [][C24_ReadLast]_vars

\* No current position: KEYA is held by the previous positions only, KEYC
\* by none.
C24_Witness ==
    /\ main.pc = "exit"
    /\ calls = <<"add_current_positions", "add_previous_positions",
                 "add_transactions", "get_investments">>
    /\ curSeen = << >>
    /\ prevSeen = <<Position(ListedA, 100, 1000)>>
    /\ txSeen = <<Transaction(1, "BUY", "KEYC", 10, 100),
                  Transaction(1, "BUY", "KEYA", 10, 100)>>
    /\ warnings = <<"KEYC">>
    /\ investments["KEYA"].transactions = <<Transaction(1, "BUY", "KEYA", 10, 100)>>
    /\ investments["KEYA"].current_invested_amount = 1100

====
